---- MODULE Spec2Model ----
(***************************************************************************)
(* Record lifecycle and dual-chain commit / verification engine of         *)
(* casibase (object/record.go, object/record_chain.go, chain/ethereum).    *)
(*                                                                         *)
(* The record store is the table xorm keeps for object.Record, the ledgers *)
(* are the chains the EthereumClient of each provider talks to, and every  *)
(* handler that spans an external call (a ledger Commit) is a process with *)
(* one step per call, so that other handlers interleave where they can in  *)
(* the program.                                                            *)
(***************************************************************************)
EXTENDS Integers, Sequences, FiniteSets, TLC

VARIABLES
    store,        \* the rows of the record table (a set of Record values, keyed by id)
    nextId,       \* the autoincrement counter of the record table
    ledger,       \* ledger[p]: the transactions (payloads) mined on provider p's chain
    active,       \* <<first, second>>: names of the active blockchain providers ("" = none)
    logPostOnly,  \* the package variable logPostOnly, read from the configuration
    proc,         \* per worker: the handler it runs, its position and its locals
    last,         \* what the query handler that has just returned has returned
    edits,        \* how many updates, deletes and reconfigurations the operators have made
    built         \* what NewRecord has returned for the request it was called with

vars == <<store, nextId, ledger, active, logPostOnly, proc, last, edits, built>>

----------------------------------------------------------------------------
(* Bounds of the model *)

MaxRecords == 2     \* rows inserted over a run
MaxTx == 2          \* transactions broadcast over a run, all ledgers together
MaxEdits == 1       \* updates, deletes and reconfigurations over a run

Workers == {"w1", "w2"}
Orgs == {"o1", "o2"}
Names == {"n1", "n2"}
Objects == {"a", "b"}
Methods == {"GET", "POST"}
Actions == {"add-store", "commit-record", "query-record-second"}
ProviderNames == {"p1", "p2"}          \* the providers the directory holds
UnknownProvider == "px"                \* a name the directory does not hold
InitialActive == <<"p1", "">>
ActiveConfigs == {<<"", "">>, InitialActive, <<"p2", "p1">>}
Slots == {1, 2}

----------------------------------------------------------------------------
(* Errors and return values.  nil is the nil error; an error carries the   *)
(* text that identifies it and the values formatted into it.               *)

Err(msg, id, arg) == [msg |-> msg, id |-> id, arg |-> arg]
nil == Err("", "", "")

ErrAlreadyCommitted(id, blockId) == Err("has already been committed, blockId =", id, blockId)
ErrProviderNotFound(name) == Err("the blockchain provider is not found", "", name)
ErrNoActiveProvider == Err("there is no active blockchain provider", "", "")
ErrNotExist(id) == Err("the record does not exist", id, "")
ErrBlockEmpty(id) == Err("the record's block ID should not be empty", id, "")
ErrLookup == Err("provider lookup failed", "", "")
ErrLedger == Err("ledger commit failed", "", "")
ErrMined == Err("transaction failed to be mined", "", "")
ErrTxNotFound(tx) == Err("transaction not found", "", tx)

NoData == <<>>                          \* a nil interface{} / nil map

----------------------------------------------------------------------------
(* type Record struct *)

AnchorFields == {"provider", "block", "blockHash", "transaction",
                 "provider2", "block2", "blockHash2", "transaction2"}

ProviderField(slot) == IF slot = 1 THEN "provider" ELSE "provider2"
BlockField(slot) == IF slot = 1 THEN "block" ELSE "block2"
BlockHashField(slot) == IF slot = 1 THEN "blockHash" ELSE "blockHash2"
TransactionField(slot) == IF slot = 1 THEN "transaction" ELSE "transaction2"
SlotFields(slot) == {ProviderField(slot), BlockField(slot), BlockHashField(slot), TransactionField(slot)}

BusinessFields == {"method", "requestUri", "action", "object"}

Record(organization, name, method, action, object, needCommit, provider) ==
    [id |-> 0, owner |-> "", name |-> name, organization |-> organization,
     method |-> method, requestUri |-> "", action |-> action, object |-> object,
     provider |-> provider, block |-> "", blockHash |-> "", transaction |-> "",
     provider2 |-> "", block2 |-> "", blockHash2 |-> "", transaction2 |-> "",
     isTriggered |-> FALSE, needCommit |-> needCommit]

RecordFields == DOMAIN Record("", "", "", "", "", FALSE, "")

\* func (record *Record) getId() string
getId(record) == record.owner \o "/" \o record.name

\* util.GetOwnerAndNameFromId: the id split at its "/"
Ids == {o \o "/" \o n : o \in Orgs \cup {""}, n \in Names}
QueryIds == {"o1/n1", "o2/n1", "/n1"}
GetOwnerAndNameFromId(id) ==
    CHOOSE on \in (Orgs \cup {""}) \X Names : on[1] \o "/" \o on[2] = id

\* a canonicalization that clears the primary slot only
toParam_KeepsSecond(record) ==
    LET record2 == [f \in DOMAIN record |->
                      IF f \in {"provider", "block", "blockHash", "transaction"}
                         THEN "" ELSE record[f]]
    IN  [param |-> [key |-> record2.owner \o "/" \o record2.name, field |-> "Record",
                    value |-> record2],
         receiver |-> record]

\* func (record *Record) toParam() string.  param: the Param{Key, Field, Value}
\* returned, whose Value is record2, the copy of the record with the eight
\* anchoring fields of both slots cleared; receiver: *record after the call
toParam(record) ==
    LET record2 == [f \in DOMAIN record |-> IF f \in AnchorFields THEN "" ELSE record[f]]
    IN  [param |-> [key |-> getId(record2), field |-> "Record", value |-> record2],
         receiver |-> record]

----------------------------------------------------------------------------
(* The record table *)

\* func getRecord(owner, name): the rows engine.Get(&Record{Name: name}) may
\* return (the query has no ORDER BY, so any row of that name); {} is nil
getRecord(owner, name) ==
    IF owner = "" \/ name = "" THEN {} ELSE {r \in store : r.name = name}

\* func GetRecord(id string)
GetRecord(id) ==
    LET on == GetOwnerAndNameFromId(id) IN getRecord(on[1], on[2])

\* xorm's column of a key of a field map (SnakeMapper)
ColumnField(col) ==
    CASE col = "block_hash" -> "blockHash"
      [] col = "block_hash2" -> "blockHash2"
      [] OTHER -> col

\* a full-row update: the columns fields does not name are written with zero values
UpdateWhereName_AllCols(name, fields) ==
    {IF r.name = name
        THEN [f \in DOMAIN r |->
                IF \E c \in DOMAIN fields : ColumnField(c) = f
                   THEN fields[CHOOSE c \in DOMAIN fields : ColumnField(c) = f]
                   ELSE IF f = "id" THEN r[f]
                   ELSE IF f \in {"isTriggered", "needCommit"} THEN FALSE
                   ELSE ""]
        ELSE r : r \in store}

\* Where("name = ?", name).Update(fields): the table after the statement
UpdateWhereName(name, fields) ==
    {IF r.name = name
        THEN [f \in DOMAIN r |->
                IF \E c \in DOMAIN fields : ColumnField(c) = f
                   THEN fields[CHOOSE c \in DOMAIN fields : ColumnField(c) = f]
                   ELSE r[f]]
        ELSE r : r \in store}

\* func UpdateRecordFields(id, fields): <<affected, err, table after the call>>
UpdateRecordFields(id, fields) ==
    LET on == GetOwnerAndNameFromId(id) IN
    IF getRecord(on[1], on[2]) = {}
       THEN <<FALSE, nil, store>>
       ELSE <<{r \in store : r.name = on[2]} # {}, nil, UpdateWhereName(on[2], fields)>>

----------------------------------------------------------------------------
(* The provider directory.  A provider is identified by its name; "" is a  *)
(* nil *Provider.  Every lookup is a database read that may fail.          *)

\* getProvider("admin", name): the <<provider, err>> it may return
getProvider(name) ==
    {<<IF name \in ProviderNames THEN name ELSE "", nil>>, <<"", ErrLookup>>}

\* GetActiveBlockchainProvider("admin")
GetActiveBlockchainProvider == {<<active[1], nil>>, <<"", ErrLookup>>}

\* GetTwoActiveBlockchainProvider("admin"): <<first, second, err>>
GetTwoActiveBlockchainProvider == {<<active[1], active[2], nil>>, <<"", "", ErrLookup>>}

\* a resolution that falls back to the active provider when the named one is missing
getRecordProvider_FallsBack(chainProvider) ==
    IF chainProvider # ""
       THEN {IF res[2] # nil THEN <<"", res[2]>>
             ELSE IF res[1] = "" THEN <<active[1], nil>>
             ELSE <<res[1], nil>> : res \in getProvider(chainProvider)}
       ELSE {IF res[2] # nil THEN <<"", res[2]>> ELSE <<res[1], nil>> :
                res \in GetActiveBlockchainProvider}

\* func (record *Record) getRecordProvider(chainProvider): <<provider, err>>
getRecordProvider(chainProvider) ==
    IF chainProvider # ""
       THEN {IF res[2] # nil THEN <<"", res[2]>>
             ELSE IF res[1] = "" THEN <<"", ErrProviderNotFound(chainProvider)>>
             ELSE <<res[1], nil>> : res \in getProvider(chainProvider)}
       ELSE {IF res[2] # nil THEN <<"", res[2]>> ELSE <<res[1], nil>> :
                res \in GetActiveBlockchainProvider}

\* func (record *Record) getRecordChainClient(chainProvider): <<client, provider, err>>;
\* the client of a provider is identified by the provider whose chain it talks to
getRecordChainClient(chainProvider) ==
    {IF res[2] # nil THEN <<"", "", res[2]>>
     ELSE IF res[1] = "" THEN <<"", "", ErrNoActiveProvider>>
     ELSE <<res[1], res[1], nil>> : res \in getRecordProvider(chainProvider)}

----------------------------------------------------------------------------
(* The ledger client (EthereumClient).  ledger[c] is the sequence of the   *)
(* transactions' data on the chain of client c; transaction n is mined in  *)
(* block n.                                                                *)

BlockNumber(n) == ToString(n)                        \* receipt.BlockNumber.String()
TxHash(c, n) == "0x" \o c \o "t" \o ToString(n)      \* signedTx.Hash().Hex()
BlockHashHex(c, n) == "0x" \o c \o "b" \o ToString(n)  \* receipt.BlockHash.Hex()

\* func (client *EthereumClient) Commit(data):
\* the <<blockId, transactionId, blockHash, err, chain after the call>> it may return
RECURSIVE TxCount(_)
TxCount(cs) ==
    IF cs = {} THEN 0
    ELSE LET c == CHOOSE x \in cs : TRUE IN Len(ledger[c]) + TxCount(cs \ {c})

\* a Commit that sends the transaction again when it was not mined in time
Commit_Rebroadcasts(c, data) ==
    {<<"", "", "", ErrLedger, ledger[c]>>}
    \cup
    (IF TxCount(DOMAIN ledger) < MaxTx
        THEN LET n == Len(ledger[c]) + 1 IN
             {<<BlockNumber(n), TxHash(c, n), BlockHashHex(c, n), nil, Append(ledger[c], data)>>,
              <<BlockNumber(n + 1), TxHash(c, n + 1), BlockHashHex(c, n + 1), nil,
                Append(Append(ledger[c], data), data)>>}
        ELSE {})

Commit(c, data) ==
    {<<"", "", "", ErrLedger, ledger[c]>>}
    \cup
    (IF TxCount(DOMAIN ledger) < MaxTx
        THEN LET n == Len(ledger[c]) + 1 IN
             {<<BlockNumber(n), TxHash(c, n), BlockHashHex(c, n), nil, Append(ledger[c], data)>>,
              <<"", "", "", ErrMined, Append(ledger[c], data)>>}
        ELSE {})

EmptyText == <<>>

\* a Query that reports a mismatch as an error
Query_MismatchIsError(c, txHash, data) ==
    LET found == {n \in 1..Len(ledger[c]) : TxHash(c, n) = txHash} IN
    IF found = {}
       THEN <<EmptyText, ErrTxNotFound(txHash)>>
       ELSE LET n == CHOOSE k \in found : TRUE
                blockId == BlockNumber(n)
                chainData == ledger[c][n]
            IN  IF chainData = data
                   THEN <<<<"The query result for block", blockId, "Matched", chainData>>, nil>>
                   ELSE <<EmptyText, Err("Mismatched", blockId, "")>>

\* func (client *EthereumClient) Query(txHash, data): <<result text, err>>
Query(c, txHash, data) ==
    LET found == {n \in 1..Len(ledger[c]) : TxHash(c, n) = txHash} IN
    IF found = {}
       THEN <<EmptyText, ErrTxNotFound(txHash)>>
       ELSE LET n == CHOOSE k \in found : TRUE
                blockId == BlockNumber(n)
                chainData == ledger[c][n]
            IN  IF chainData = data
                   THEN <<<<"The query result for block", blockId, "Matched", chainData>>, nil>>
                   ELSE <<<<"The query result for block", blockId, "Mismatched", chainData, data>>, nil>>

----------------------------------------------------------------------------
(* Workers: a handler that calls a ledger runs as a process.               *)
(*   pc = "idle"    no handler running                                     *)
(*   pc = "commit"  before client.Commit(record.toParam())                 *)
(*   pc = "update"  before UpdateRecordFields(record.getId(), data)        *)
(*   pc = "done"    the handler has returned <<affected, data, err>>       *)

ZeroRecord == Record("", "", "", "", "", FALSE, "")

IdleProc ==
    [pc |-> "idle", op |-> "", slot |-> 0, record |-> ZeroRecord, client |-> "",
     blockId |-> "", transactionId |-> "", blockHash |-> "",
     affected |-> FALSE, data |-> NoData, err |-> nil]

\* return affected, data, err
Returned(op, slot, record, affected, data, err) ==
    [IdleProc EXCEPT !.pc = "done", !.op = op, !.slot = slot, !.record = record,
                     !.affected = affected, !.data = data, !.err = err]

\* the return value of a handler that is no process; NoReturn when the step
\* just taken returned nothing
Ret(op, id, slot, affected, text, err, queried) ==
    [op |-> op, id |-> id, slot |-> slot, affected |-> affected, text |-> text,
     err |-> err, queried |-> queried]
NoReturn == Ret("", "", 0, FALSE, EmptyText, nil, FALSE)

\* a guard that reads the primary block for either slot
AlreadyCommitted_PrimaryOnly(record, slot) == record.block # ""

\* the write-once guard: if record.Block != "" (resp. record.Block2)
AlreadyCommitted(record, slot) == record[BlockField(slot)] # ""

\* CommitRecord / CommitRecordSecond from their entry to the call of
\* client.Commit: the guard, the resolution of the client, record.Provider = provider.Name
CommitBegin(p, op, slot, record) ==
    IF AlreadyCommitted(record, slot)
       THEN proc' = [proc EXCEPT ![p] =
                Returned(op, slot, record, FALSE, NoData,
                         ErrAlreadyCommitted(getId(record), record[BlockField(slot)]))]
       ELSE \E res \in getRecordChainClient(record[ProviderField(slot)]) :
                IF res[3] # nil
                   THEN proc' = [proc EXCEPT ![p] =
                            Returned(op, slot, record, FALSE, NoData, res[3])]
                   ELSE proc' = [proc EXCEPT ![p] =
                            [IdleProc EXCEPT !.pc = "commit", !.op = op, !.slot = slot,
                                !.record = [record EXCEPT ![ProviderField(slot)] = res[2]],
                                !.client = res[1]]]

\* a commit that persists the block id into the column object
CommitData_BlockIntoObject(record, slot, blockId, transactionId, blockHash) ==
    IF slot = 1
       THEN [provider |-> record.provider, object |-> blockId,
             transaction |-> transactionId, block_hash |-> blockHash]
       ELSE [provider2 |-> record.provider2, object |-> blockId,
             transaction2 |-> transactionId, block_hash2 |-> blockHash]

\* a secondary commit that persists into the columns of the primary slot
CommitData_SecondIntoPrimary(record, slot, blockId, transactionId, blockHash) ==
    [provider |-> record[ProviderField(slot)], block |-> blockId,
     transaction |-> transactionId, block_hash |-> blockHash]

\* the field map a commit persists
CommitData(record, slot, blockId, transactionId, blockHash) ==
    IF slot = 1
       THEN [provider |-> record.provider, block |-> blockId,
             transaction |-> transactionId, block_hash |-> blockHash]
       ELSE [provider2 |-> record.provider2, block2 |-> blockId,
             transaction2 |-> transactionId, block_hash2 |-> blockHash]

\* func CommitRecord(record *Record), called on a record read from the table
CommitRecord(p) ==
    /\ proc[p].pc = "idle"
    /\ \E record \in store : CommitBegin(p, "CommitRecord", 1, record)
    /\ last' = NoReturn
    /\ UNCHANGED <<store, nextId, ledger, active, logPostOnly, built, edits>>

\* func CommitRecordSecond(record *Record)
CommitRecordSecond(p) ==
    /\ proc[p].pc = "idle"
    /\ \E record \in store : CommitBegin(p, "CommitRecordSecond", 2, record)
    /\ last' = NoReturn
    /\ UNCHANGED <<store, nextId, ledger, active, logPostOnly, built, edits>>

\* an AddRecord that takes its insert back when client.Commit fails
LedgerCommit_RollsBack(p) ==
    /\ proc[p].pc = "commit"
    /\ LET call == toParam(proc[p].record) IN
       \E out \in Commit(proc[p].client, call.param) :
          /\ ledger' = [ledger EXCEPT ![proc[p].client] = out[5]]
          /\ IF out[4] # nil
                THEN /\ proc' = [proc EXCEPT ![p] =
                            Returned(proc[p].op, proc[p].slot, call.receiver, FALSE, NoData, out[4])]
                     /\ store' = IF proc[p].op = "AddRecord"
                                    THEN {r \in store : r.id # proc[p].record.id}
                                    ELSE store
                ELSE /\ proc' = [proc EXCEPT ![p].pc = "update", ![p].record = call.receiver,
                                             ![p].blockId = out[1],
                                             ![p].transactionId = out[2], ![p].blockHash = out[3]]
                     /\ store' = store
    /\ last' = NoReturn
    /\ UNCHANGED <<nextId, active, logPostOnly, built, edits>>

\* a commit that persists its fields before it looks at the error of client.Commit
LedgerCommit_PersistsFailure(p) ==
    /\ proc[p].pc = "commit"
    /\ LET call == toParam(proc[p].record) IN
       \E out \in Commit(proc[p].client, call.param) :
          /\ ledger' = [ledger EXCEPT ![proc[p].client] = out[5]]
          /\ IF out[4] # nil
                THEN /\ proc' = [proc EXCEPT ![p] =
                            Returned(proc[p].op, proc[p].slot, call.receiver, FALSE, NoData, out[4])]
                     /\ store' = UpdateRecordFields(getId(call.receiver),
                                    CommitData(call.receiver, proc[p].slot, out[1], out[2], out[3]))[3]
                ELSE /\ proc' = [proc EXCEPT ![p].pc = "update", ![p].record = call.receiver,
                                             ![p].blockId = out[1],
                                             ![p].transactionId = out[2], ![p].blockHash = out[3]]
                     /\ store' = store
    /\ last' = NoReturn
    /\ UNCHANGED <<nextId, active, logPostOnly, built, edits>>

\* blockId, transactionId, blockHash, err := client.Commit(record.toParam())
LedgerCommit(p) ==
    /\ proc[p].pc = "commit"
    /\ LET call == toParam(proc[p].record) IN
       \E out \in Commit(proc[p].client, call.param) :
          /\ ledger' = [ledger EXCEPT ![proc[p].client] = out[5]]
          /\ IF out[4] # nil
                THEN proc' = [proc EXCEPT ![p] =
                         Returned(proc[p].op, proc[p].slot, call.receiver, FALSE, NoData, out[4])]
                ELSE proc' = [proc EXCEPT ![p].pc = "update", ![p].record = call.receiver,
                                          ![p].blockId = out[1],
                                          ![p].transactionId = out[2], ![p].blockHash = out[3]]
    /\ last' = NoReturn
    /\ UNCHANGED <<store, nextId, active, logPostOnly, built, edits>>

\* an AddRecord that returns the acknowledgement of its insert after the commit
CommitReturn_BareAck(op, slot, record, affected, data, err) ==
    CASE op = "CommitRecord" -> Returned(op, slot, record, affected, data, err)
      [] op = "CommitRecordSecond" -> Returned(op, slot, record, affected, NoData, err)
      [] OTHER -> IF err # nil
                     THEN Returned(op, slot, record, FALSE, NoData, err)
                     ELSE Returned(op, slot, record, TRUE, NoData, nil)

\* what the handler returns once UpdateRecordFields has returned <<affected, err>>:
\* CommitRecord returns affected, data, err; CommitRecordSecond returns affected, err;
\* AddRecord returns false, nil, err when err is set and affected2, data, nil otherwise
CommitReturn(op, slot, record, affected, data, err) ==
    CASE op = "CommitRecord" -> Returned(op, slot, record, affected, data, err)
      [] op = "CommitRecordSecond" -> Returned(op, slot, record, affected, NoData, err)
      [] OTHER -> IF err # nil
                     THEN Returned(op, slot, record, FALSE, NoData, err)
                     ELSE Returned(op, slot, record, affected, data, nil)

\* the locals blockId, transactionId, blockHash stay as client.Commit set them
KeepIds(ret, blockId, transactionId, blockHash) ==
    [ret EXCEPT !.blockId = blockId, !.transactionId = transactionId, !.blockHash = blockHash]

\* affected, err := UpdateRecordFields(record.getId(), data), and the return
CommitUpdate(p) ==
    /\ proc[p].pc = "update"
    /\ LET data == CommitData(proc[p].record, proc[p].slot, proc[p].blockId,
                              proc[p].transactionId, proc[p].blockHash)
           res == UpdateRecordFields(getId(proc[p].record), data)
       IN  /\ store' = res[3]
           /\ proc' = [proc EXCEPT ![p] =
                  KeepIds(CommitReturn(proc[p].op, proc[p].slot, proc[p].record,
                                       res[1], <<data>>, res[2]),
                          proc[p].blockId, proc[p].transactionId, proc[p].blockHash)]
    /\ last' = NoReturn
    /\ UNCHANGED <<nextId, ledger, active, logPostOnly, built, edits>>

\* the caller takes the result; the worker is free again
Return(p) ==
    /\ proc[p].pc = "done"
    /\ proc' = [proc EXCEPT ![p] = IdleProc]
    /\ last' = NoReturn
    /\ UNCHANGED <<store, nextId, ledger, active, logPostOnly, built, edits>>

----------------------------------------------------------------------------
(* NewRecord: the record of a captured request.  A request is its method,  *)
(* its URL path, its RequestURI after util.FilterQuery and its body.       *)

UriLimit == 1000

\* s repeated n times; the string of length n that repeats s
RECURSIVE Repeat(_, _)
Repeat(s, n) ==
    IF n = 0 THEN ""
    ELSE IF n % 2 = 0 THEN LET h == Repeat(s, n \div 2) IN h \o h
    ELSE s \o Repeat(s, n - 1)
Uri(s, n) == SubSeq(Repeat(s, n), 1, n)

UriLengths == {0, 1, 2, UriLimit - 1, UriLimit, UriLimit + 1, UriLimit + 2, UriLimit + 500}
Requests ==
    [method : Methods, path : {"/api/" \o a : a \in Actions},
     requestURI : {Uri(s, n) : s \in {"/ab", "/xyzw"}, n \in UriLengths},
     body : {"", "a"}]

\* strings.Replace(ctx.Request.URL.Path, "/api/", "", -1), over the paths of the model
ActionOfPath(path) == CHOOSE a \in Actions : "/api/" \o a = path

ErrLocation == Err("util.GetInfoFromIP", "", "")
NoBuilt == [ctx |-> <<>>, record |-> ZeroRecord, err |-> nil]

\* a NewRecord that keeps the request URI whole
NewRecord_NoTruncation(ctx, name) ==
    /\ \/ built' = [ctx |-> ctx, err |-> nil,
                    record |-> [Record("", name, ctx.method, ActionOfPath(ctx.path),
                                       ctx.body, FALSE, "")
                                  EXCEPT !.requestUri = ctx.requestURI]]
       \/ built' = [ctx |-> ctx, record |-> ZeroRecord, err |-> ErrLocation]
    /\ UNCHANGED <<store, nextId, ledger, active, logPostOnly, proc, last, edits>>

\* func NewRecord(ctx *context.Context) (*Record, error); name is what
\* util.GenerateId() returns, and util.GetInfoFromIP may fail
NewRecord(ctx, name) ==
    /\ LET requestUri == IF Len(ctx.requestURI) > UriLimit
                            THEN SubSeq(ctx.requestURI, 1, UriLimit)
                            ELSE ctx.requestURI
       IN  \/ built' = [ctx |-> ctx, err |-> nil,
                        record |-> [Record("", name, ctx.method, ActionOfPath(ctx.path),
                                           ctx.body, FALSE, "")
                                      EXCEPT !.requestUri = requestUri]]
           \/ built' = [ctx |-> ctx, record |-> ZeroRecord, err |-> ErrLocation]
    /\ UNCHANGED <<store, nextId, ledger, active, logPostOnly, proc, last, edits>>

----------------------------------------------------------------------------
(* AddRecord *)

\* strings.HasSuffix(action, suffix), over the actions of the model
ActionStems == {"add", "commit", "query", "add-store"}
HasSuffix(action, suffix) == \E stem \in ActionStems : stem \o suffix = action

\* filters that let GET requests through whatever the policy
Skipped_SuffixOnly(record) ==
    \/ HasSuffix(record.action, "-record")
    \/ HasSuffix(record.action, "-record-second")

\* filters without the test of the suffix "-record-second"
Skipped_NoSecondSuffix(record) ==
    \/ logPostOnly /\ record.method = "GET"
    \/ HasSuffix(record.action, "-record")

\* the filters of AddRecord: the record is skipped
Skipped(record) ==
    \/ logPostOnly /\ record.method = "GET"
    \/ HasSuffix(record.action, "-record")
    \/ HasSuffix(record.action, "-record-second")

\* a binding that forgets the second provider
BindProviders_FirstOnly(record, providerFrist, providerSecend) ==
    IF providerFrist # "" THEN [record EXCEPT !.provider = providerFrist] ELSE record

\* if record.Provider == "" { ... }: the record with the active providers bound
BindProviders(record, providerFrist, providerSecend) ==
    LET r1 == IF providerFrist # "" THEN [record EXCEPT !.provider = providerFrist] ELSE record
    IN  IF providerSecend # "" THEN [r1 EXCEPT !.provider2 = providerSecend] ELSE r1

\* the records a caller passes to AddRecord: built by NewRecord (no provider)
\* or posted with a provider name; the id owner/name is not in the table yet
NewIds == {<<"o1", "n1">>, <<"o2", "n1">>, <<"o1", "n2">>}
PlainRecords ==
    {Record(on[1], on[2], "POST", "add-store", "a", FALSE, "") : on \in NewIds}
NewRecords ==
    PlainRecords
    \cup {Record("o1", "n1", "POST", "add-store", "a", TRUE, pr) : pr \in {"", UnknownProvider}}
    \cup {Record("o1", "n1", "GET", "add-store", "a", TRUE, "")}
    \cup {Record("o1", "n1", "POST", a, "a", TRUE, "") : a \in Actions}

\* func AddRecord(record *Record)
AddRecord(p, record) ==
    /\ proc[p].pc = "idle"
    /\ \A r \in store : ~(r.owner = record.organization /\ r.name = record.name)
    /\ last' = NoReturn
    /\ UNCHANGED <<ledger, active, logPostOnly, built, edits>>
    /\ IF Skipped(record)
          THEN /\ proc' = [proc EXCEPT ![p] = Returned("AddRecord", 0, record, FALSE, NoData, nil)]
               /\ UNCHANGED <<store, nextId>>
          ELSE \E two \in (IF record.provider = "" THEN GetTwoActiveBlockchainProvider
                           ELSE {<<"", "", nil>>}) :
                 IF two[3] # nil
                    THEN /\ proc' = [proc EXCEPT ![p] =
                                Returned("AddRecord", 0, record, FALSE, NoData, two[3])]
                         /\ UNCHANGED <<store, nextId>>
                    ELSE LET bound == IF record.provider = ""
                                         THEN BindProviders(record, two[1], two[2])
                                         ELSE record
                             inserted == [bound EXCEPT !.owner = bound.organization, !.id = nextId]
                         IN  /\ nextId <= MaxRecords
                             /\ store' = store \cup {inserted}
                             /\ nextId' = nextId + 1
                             /\ IF inserted.needCommit
                                   THEN CommitBegin(p, "AddRecord", 1, inserted)
                                   ELSE proc' = [proc EXCEPT ![p] =
                                           Returned("AddRecord", 0, inserted, TRUE, NoData, nil)]

----------------------------------------------------------------------------
(* UpdateRecord, UpdateRecordInternal, DeleteRecord *)

\* a reset that clears the block alone
ResetOnProviderChange_BlockOnly(record, p) ==
    LET r1 == IF record.provider # p.provider THEN [record EXCEPT !.block = ""] ELSE record
    IN  IF r1.provider2 # p.provider2 THEN [r1 EXCEPT !.block2 = ""] ELSE r1

\* "Update provider": the record UpdateRecord writes, given the row p it read
ResetOnProviderChange(record, p) ==
    LET r1 == IF record.provider # p.provider
                 THEN [record EXCEPT !.block = "", !.blockHash = "", !.transaction = ""]
                 ELSE record
    IN  IF r1.provider2 # p.provider2
           THEN [r1 EXCEPT !.block2 = "", !.blockHash2 = "", !.transaction2 = ""]
           ELSE r1

\* Where("name = ?", name).AllCols().Update(record): every column but the
\* autoincrement id of every row of that name
UpdateAllColsWhereName(name, record) ==
    {IF r.name = name THEN [record EXCEPT !.id = r.id] ELSE r : r \in store}

\* the records a caller passes to UpdateRecord: a row it read, edited
ForgedBlock == "9"
OtherProvider(name) == IF name = "p2" THEN "p1" ELSE "p2"
Edits(r) ==
    {[r EXCEPT !.object = o] : o \in Objects \ {r.object}}
    \cup {[r EXCEPT ![ProviderField(s)] = OtherProvider(r[ProviderField(s)])] : s \in Slots}
    \cup {[r EXCEPT !.block = ForgedBlock]}

\* func UpdateRecord(id string, record *Record)
UpdateRecord(id, record) ==
    LET on == GetOwnerAndNameFromId(id)
        rows == getRecord(on[1], on[2])
    IN  /\ IF rows = {}
              THEN store' = store
              ELSE \E p \in rows :
                      store' = UpdateAllColsWhereName(on[2], ResetOnProviderChange(record, p))
        /\ last' = NoReturn
        /\ edits < MaxEdits /\ edits' = edits + 1
        /\ UNCHANGED <<nextId, ledger, active, logPostOnly, built, proc>>

\* func UpdateRecordInternal(id int, record Record): engine.ID(id).Update(record)
\* writes the non-empty string columns of record to the row of that id
UpdateRecordInternal(id, record) ==
    /\ store' = {IF r.id = id
                    THEN [f \in DOMAIN r |->
                            IF f \notin {"id", "isTriggered", "needCommit"} /\ record[f] # ""
                               THEN record[f] ELSE r[f]]
                    ELSE r : r \in store}
    /\ last' = NoReturn
    /\ edits < MaxEdits /\ edits' = edits + 1
    /\ UNCHANGED <<nextId, ledger, active, logPostOnly, built, proc>>

\* func DeleteRecord(record *Record)
DeleteRecord(record) ==
    /\ store' = {r \in store : r.name # record.name}
    /\ last' = NoReturn
    /\ edits < MaxEdits /\ edits' = edits + 1
    /\ UNCHANGED <<nextId, ledger, active, logPostOnly, built, proc>>

----------------------------------------------------------------------------
(* QueryRecord, QueryRecordSecond *)

\* the <<result text, err, whether client.Query was called>> a query of
\* the slot of id may return
QueryResults(id, slot) ==
    LET rows == GetRecord(id) IN
    IF rows = {}
       THEN {<<EmptyText, ErrNotExist(id), FALSE>>}
       ELSE UNION {
              IF record[BlockField(slot)] = ""
                 THEN {<<EmptyText, ErrBlockEmpty(getId(record)), FALSE>>}
                 ELSE {IF res[3] # nil
                          THEN <<EmptyText, res[3], FALSE>>
                          ELSE LET q == Query(res[1], record[TransactionField(slot)],
                                              toParam(record).param)
                               IN  IF q[2] # nil THEN <<EmptyText, q[2], TRUE>>
                                                 ELSE <<q[1], nil, TRUE>> :
                       res \in getRecordChainClient(record[ProviderField(slot)])} :
              record \in rows}

\* func QueryRecord(id string)
QueryRecord(id) ==
    /\ \E res \in QueryResults(id, 1) :
          last' = Ret("QueryRecord", id, 1, FALSE, res[1], res[2], res[3])
    /\ UNCHANGED <<store, nextId, ledger, active, logPostOnly, built, proc, edits>>

\* func QueryRecordSecond(id string)
QueryRecordSecond(id) ==
    /\ \E res \in QueryResults(id, 2) :
          last' = Ret("QueryRecordSecond", id, 2, FALSE, res[1], res[2], res[3])
    /\ UNCHANGED <<store, nextId, ledger, active, logPostOnly, built, proc, edits>>

----------------------------------------------------------------------------
(* The directory is reconfigured: other providers become the active ones *)

SetActive(cfg) ==
    /\ cfg # active
    /\ active' = cfg
    /\ last' = NoReturn
    /\ edits < MaxEdits /\ edits' = edits + 1
    /\ UNCHANGED <<store, nextId, ledger, logPostOnly, built, proc>>

----------------------------------------------------------------------------
(* The system *)

Init ==
    /\ store = {}
    /\ nextId = 1
    /\ ledger = [c \in ProviderNames |-> <<>>]
    /\ active = InitialActive
    /\ logPostOnly \in BOOLEAN
    /\ proc = [p \in Workers |-> IdleProc]
    /\ last = NoReturn
    /\ edits = 0
    /\ built = NoBuilt

Next ==
    \/ \E p \in {"w1"} : \E record \in NewRecords : AddRecord(p, record)
    \/ \E p \in {"w1"} : CommitRecord(p)
    \/ \E p \in {"w1"} : CommitRecordSecond(p)
    \/ \E p \in {"w1"} : LedgerCommit(p)
    \/ \E p \in {"w1"} : CommitUpdate(p)
    \/ \E p \in {"w1"} : Return(p)
    \/ \E r \in store : \E record \in Edits(r) : UpdateRecord(getId(r), record)
    \/ \E r \in store : UpdateRecord("/" \o r.name, r)
    \/ \E r \in store : \E o \in Objects \ {r.object} :
          UpdateRecordInternal(r.id, [ZeroRecord EXCEPT !.object = o])
    \/ \E r \in store : DeleteRecord(r)
    \/ \E cfg \in ActiveConfigs : SetActive(cfg)

Spec == Init /\ [][Next]_vars

----------------------------------------------------------------------------
(* Verification: records are added and committed by one worker, queried,   *)
(* and their business fields edited by the operators.                      *)

\* the records added: one id, and the same name under another owner
VerifyRecords == {r \in PlainRecords : r.name = "n1"}

\* no handler of this specification reads logPostOnly but AddRecord, for GET
InitVerify ==
    /\ store = {}
    /\ nextId = 1
    /\ ledger = [c \in ProviderNames |-> <<>>]
    /\ active = InitialActive
    /\ logPostOnly = TRUE
    /\ proc = [p \in Workers |-> IdleProc]
    /\ last = NoReturn
    /\ edits = 0
    /\ built = NoBuilt

NextVerify ==
    \/ \E p \in {"w1"} : \E record \in VerifyRecords : AddRecord(p, record)
    \/ \E p \in {"w1"} : CommitRecord(p)
    \/ \E p \in {"w1"} : CommitRecordSecond(p)
    \/ \E p \in {"w1"} : LedgerCommit(p)
    \/ \E p \in {"w1"} : CommitUpdate(p)
    \/ \E p \in {"w1"} : Return(p)
    \/ \E r \in store : \E o \in Objects \ {r.object} :
          UpdateRecord(getId(r), [r EXCEPT !.object = o])
    \/ \E cfg \in ActiveConfigs : SetActive(cfg)
    \/ \E id \in QueryIds : QueryRecord(id)
    \/ \E id \in QueryIds : QueryRecordSecond(id)

SpecVerify == InitVerify /\ [][NextVerify]_vars

----------------------------------------------------------------------------
(* Rebinding: records are added, one of them posted with the name of a     *)
(* provider, committed by one worker, and the operators change the         *)
(* provider of a slot of a record or the active providers.                 *)

RebindRecords ==
    {Record("o1", "n1", "POST", "add-store", "a", FALSE, ""),
     Record("o2", "n1", "POST", "add-store", "a", FALSE, "p2"),
     Record("o1", "n2", "POST", "add-store", "a", TRUE, "")}

ProviderEdits(r) ==
    {[r EXCEPT ![ProviderField(s)] = OtherProvider(r[ProviderField(s)])] : s \in Slots}

NextRebind ==
    \/ \E p \in {"w1"} : \E record \in RebindRecords : AddRecord(p, record)
    \/ \E p \in {"w1"} : CommitRecord(p)
    \/ \E p \in {"w1"} : CommitRecordSecond(p)
    \/ \E p \in {"w1"} : LedgerCommit(p)
    \/ \E p \in {"w1"} : CommitUpdate(p)
    \/ \E p \in {"w1"} : Return(p)
    \/ \E r \in store : \E record \in ProviderEdits(r) : UpdateRecord(getId(r), record)
    \/ \E cfg \in ActiveConfigs : SetActive(cfg)

SpecRebind == InitVerify /\ [][NextRebind]_vars

----------------------------------------------------------------------------
(* Capture: NewRecord is called for one request after another.             *)

NextNewRecord == \E ctx \in Requests : \E name \in Names : NewRecord(ctx, name)

SpecNewRecord == Init /\ [][NextNewRecord]_vars

----------------------------------------------------------------------------
(* Concurrent commits: two workers commit records that are in the table,   *)
(* each at most once.                                                      *)

\* the row AddRecord inserts for record as the id-th row, the active providers
\* being InitialActive
Inserted(record, id) ==
    [BindProviders(record, InitialActive[1], InitialActive[2])
        EXCEPT !.owner = record.organization, !.id = id]

InitConcurrent ==
    /\ \E first \in PlainRecords : \E others \in SUBSET (PlainRecords \ {first}) :
          /\ Cardinality(others) <= MaxRecords - 1
          /\ \E order \in [others -> 2..MaxRecords] :
                /\ \A x, y \in others : x # y => order[x] # order[y]
                /\ store = {Inserted(first, 1)} \cup {Inserted(x, order[x]) : x \in others}
          /\ nextId = Cardinality(others) + 2
    /\ ledger = [c \in ProviderNames |-> <<>>]
    /\ active = InitialActive
    /\ logPostOnly \in BOOLEAN
    /\ proc = [p \in Workers |-> IdleProc]
    /\ last = NoReturn
    /\ edits = 0
    /\ built = NoBuilt

NextConcurrent ==
    \/ \E p \in Workers : CommitRecord(p)
    \/ \E p \in Workers : CommitRecordSecond(p)
    \/ \E p \in Workers : LedgerCommit(p)
    \/ \E p \in Workers : CommitUpdate(p)

SpecConcurrent == InitConcurrent /\ [][NextConcurrent]_vars

----------------------------------------------------------------------------
(* Properties *)

CommitOps == {"CommitRecord", "CommitRecordSecond"}
NonAnchorFields == RecordFields \ AnchorFields

\* the rows of the table whose id is owner/name
RowsOf(id) == {r \in store : getId(r) = id}

\* C1: a CommitRecord / CommitRecordSecond called on a record whose block of
\* that slot is non-empty returns at once with the error "has already been
\* committed" naming the record and that block id, affected = false; it issues
\* no ledger Commit and leaves the table, so the slot's stored fields, as they are.
C1_CommitTwiceRejected ==
    [][\A p \in Workers :
          (/\ proc[p].pc = "idle"
           /\ proc'[p].op \in CommitOps
           /\ proc'[p].record[BlockField(proc'[p].slot)] # "")
          => /\ proc'[p].pc = "done"
             /\ proc'[p].err.msg = "has already been committed, blockId ="
             /\ proc'[p].err.id = getId(proc'[p].record)
             /\ proc'[p].err.arg = proc'[p].record[BlockField(proc'[p].slot)]
             /\ ~proc'[p].affected
             /\ ledger' = ledger
             /\ store' = store]_vars

\* a secondary commit was rejected while the record's primary slot is still empty
C1_Witness ==
    \E p \in Workers :
        /\ proc[p].pc = "done" /\ proc[p].op = "CommitRecordSecond"
        /\ proc[p].err = ErrAlreadyCommitted(getId(proc[p].record), proc[p].record.block2)
        /\ proc[p].record.block2 # "" /\ proc[p].record.block = ""

C5_FailedCommitWritesNothing ==
    [][\A p \in Workers :
          (/\ proc'[p] # proc[p]
           /\ proc'[p].op \in CommitOps
           /\ ~(proc'[p].pc = "done" /\ proc'[p].err = nil))
          => /\ store' = store
             /\ proc'[p].pc = "done" => (~proc'[p].affected /\ proc'[p].data = NoData)]_vars

\* a commit has failed in the ledger, and the slot of the stored record is
\* still empty, so that the guard lets the next attempt through
C5_Witness ==
    \E p \in Workers : \E r \in store :
        /\ proc[p].pc = "done" /\ proc[p].op \in CommitOps
        /\ proc[p].err \in {ErrLedger, ErrMined}
        /\ getId(r) = getId(proc[p].record)
        /\ ~AlreadyCommitted(r, proc[p].slot)
        /\ r[TransactionField(proc[p].slot)] = "" /\ r[BlockHashField(proc[p].slot)] = ""

\* C2: of two commits of the same slot of the same record, both started while
\* the slot's block was empty, at most one gets as far as writing the slot: they
\* never both return affected = true with a ledger transaction each.
C2_SameSlotCommitsSerialized ==
    \A p, q \in Workers :
        (/\ p # q
         /\ proc[p].pc = "done" /\ proc[q].pc = "done"
         /\ proc[p].op \in CommitOps /\ proc[q].op = proc[p].op
         /\ getId(proc[p].record) = getId(proc[q].record)
         /\ proc[p].record[BlockField(proc[p].slot)] = ""
         /\ proc[q].record[BlockField(proc[q].slot)] = "")
        => ~(/\ proc[p].affected /\ proc[p].transactionId # ""
             /\ proc[q].affected /\ proc[q].transactionId # "")

RecordsInState == store \cup {proc[p].record : p \in Workers}

\* r with anchoring data in the slots S, and r with one anchoring field set
Populated(r, S) ==
    [f \in DOMAIN r |->
        IF \E slot \in S : f \in SlotFields(slot)
           THEN (IF f \in {"provider", "provider2"} THEN "p1" ELSE "1")
           ELSE r[f]]
AnchoringVariants(r) ==
    {Populated(r, S) : S \in SUBSET Slots}
    \cup {[r EXCEPT ![f] = v] : f \in AnchorFields, v \in {"", "p2", "2"}}
    \cup {[f \in DOMAIN r |-> IF f \in AnchorFields THEN "" ELSE r[f]]}

\* C7: toParam returns the same payload for two records that agree on every
\* field but the eight anchoring fields (so the payload of a record is the same
\* before a commit and after either or both slots are populated), and it leaves
\* the record it is called on as it was.
C7_PayloadIgnoresAnchoring ==
    \A r \in RecordsInState : \A v \in AnchoringVariants(r) :
        /\ toParam(v).param = toParam(r).param
        /\ toParam(v).receiver = v

\* both slots of a stored record are populated, and each ledger transaction
\* of the record carries the payload toParam returns for the populated record
C7_Witness ==
    \E r \in store :
        /\ r.block # "" /\ r.block2 # "" /\ r.provider # "" /\ r.provider2 # ""
        /\ \E c \in ProviderNames :
              /\ Len(ledger[c]) >= 2
              /\ \A n \in 1..Len(ledger[c]) : ledger[c][n] = toParam(r).param

\* C8: an UpdateRecord called with a record whose provider of a slot differs
\* from the provider of that slot of the stored record of that id writes the
\* record with empty block, blockHash and transaction of that slot, and with the
\* other slot's three fields as the caller passed them unless that slot's
\* provider differs too.
C8_ProviderChangeClearsSlot ==
    [][\A r \in store : \A record \in Edits(r) :
          UpdateRecord(getId(r), record) =>
            \A slot \in Slots :
              record[ProviderField(slot)] # r[ProviderField(slot)] =>
                \A w \in store' :
                  w.id = r.id =>
                    /\ w[BlockField(slot)] = ""
                    /\ w[BlockHashField(slot)] = ""
                    /\ w[TransactionField(slot)] = ""
                    /\ record[ProviderField(3 - slot)] = r[ProviderField(3 - slot)] =>
                         /\ w[BlockField(3 - slot)] = record[BlockField(3 - slot)]
                         /\ w[BlockHashField(3 - slot)] = record[BlockHashField(3 - slot)]
                         /\ w[TransactionField(3 - slot)] = record[TransactionField(3 - slot)]]_vars

QueryOp(slot) == IF slot = 1 THEN "QueryRecord" ELSE "QueryRecordSecond"

\* C6: when a commit of a slot of a record has succeeded (the ledger keeps the
\* payload as submitted) and the business fields of the stored record are
\* those it was committed with, QueryRecord (QueryRecordSecond for the
\* secondary slot) on the id of the record, the provider directory answering,
\* returns the verdict Matched for the block of the commit, with the payload
\* the commit submitted.
C6_QueryAfterCommitMatches ==
    \A p \in Workers :
        (/\ proc[p].pc = "done" /\ proc[p].err = nil /\ proc[p].affected
         /\ proc[p].blockId # ""
         /\ last.op = QueryOp(proc[p].slot) /\ last.id = getId(proc[p].record)
         /\ last.err # ErrLookup
         /\ \A r \in RowsOf(last.id) : \A f \in BusinessFields : r[f] = proc[p].record[f])
        => /\ last.err = nil
           /\ last.text = <<"The query result for block", proc[p].blockId, "Matched",
                            toParam(proc[p].record).param>>

\* C10: a QueryRecord (QueryRecordSecond) on an id no stored record has, or
\* whose stored record has an empty block (block2), returns an error and the
\* empty text, and has not called Query of the ledger client.
C10_QueryWithoutBlockFails ==
    (/\ last.op \in {QueryOp(slot) : slot \in Slots}
     /\ \A r \in RowsOf(last.id) : r[BlockField(last.slot)] = "")
    => /\ last.err # nil
       /\ last.text = EmptyText
       /\ ~last.queried

\* C17: the requestUri of a record NewRecord has built has at most 1000
\* characters and is the start of the filtered request URI: the whole of it
\* when that has at most 1000 characters, its first 1000 otherwise.
C17_RequestUriTruncated ==
    built.err = nil /\ built # NoBuilt =>
        LET in == built.ctx.requestURI
            out == built.record.requestUri
        IN  /\ Len(out) <= 1000
            /\ Len(out) = (IF Len(in) > 1000 THEN 1000 ELSE Len(in))
            /\ out \o SubSeq(in, Len(out) + 1, Len(in)) = in

\* a URI of more than 1000 characters has been cut to its first 1000
C17_Witness ==
    /\ built.err = nil /\ built # NoBuilt
    /\ Len(built.ctx.requestURI) = 1001
    /\ Len(built.record.requestUri) = 1000
    /\ built.record.requestUri # built.ctx.requestURI

\* the transaction ids and the payloads a query may be made with
KnownTransactions == {TxHash(c, n) : c \in ProviderNames, n \in 1..MaxTx} \cup {""}
KnownPayloads ==
    {toParam(r).param : r \in store}
    \cup UNION {{ledger[c][n] : n \in 1..Len(ledger[c])} : c \in ProviderNames}

\* C11: Query(transaction, payload) of a ledger client returns an error and no
\* text exactly when the transaction is not on its chain; otherwise it returns
\* a nil error and the verdict Matched with the chain payload when the payload
\* on the chain equals the one given, the verdict Mismatched with the chain
\* payload and the given one when they differ.
C11_QueryVerdict ==
    \A c \in ProviderNames : \A txHash \in KnownTransactions : \A data \in KnownPayloads :
        LET res == Query(c, txHash, data)
            mined == {n \in 1..Len(ledger[c]) : TxHash(c, n) = txHash}
        IN  IF mined = {}
               THEN res[2] # nil /\ res[1] = EmptyText
               ELSE /\ res[2] = nil
                    /\ \A n \in mined :
                          IF ledger[c][n] = data
                             THEN /\ res[1][3] = "Matched" /\ Len(res[1]) = 4
                                  /\ res[1][4] = data
                             ELSE /\ res[1][3] = "Mismatched" /\ Len(res[1]) = 5
                                  /\ res[1][4] = ledger[c][n]
                                  /\ res[1][5] = data

\* a query has returned the verdict Mismatched, with both payloads, and no error
C11_Witness ==
    /\ last.queried /\ last.err = nil
    /\ Len(last.text) = 5 /\ last.text[3] = "Mismatched"
    /\ last.text[4] # last.text[5]
    /\ last.text[5] \in KnownPayloads

\* C12: a Commit of a ledger client puts at most one transaction on its chain
\* and returns either an error with three empty identifiers or no error with
\* three non-empty ones and its transaction on the chain; a handler calls it
\* once: the chains grow by the one transaction of a handler that is at its
\* Commit call, which then goes on to its update or returns the error with
\* empty identifiers, and no handler comes back to its Commit call.
C12_CommitNeverRetries ==
    [][/\ \A p \in Workers : \A c \in ProviderNames :
             \A out \in Commit(c, toParam(proc[p].record).param) :
                /\ out[4] # nil => out[1] = "" /\ out[2] = "" /\ out[3] = ""
                /\ out[4] = nil => /\ out[1] # "" /\ out[2] # "" /\ out[3] # ""
                                   /\ out[5] # ledger[c]
                /\ \/ out[5] = ledger[c]
                   \/ out[5] = Append(ledger[c], toParam(proc[p].record).param)
       /\ ledger' # ledger =>
             \E p \in Workers :
                /\ proc[p].pc = "commit"
                /\ ledger' = [ledger EXCEPT ![proc[p].client] =
                                 Append(@, toParam(proc[p].record).param)]
                /\ proc'[p].pc \in {"update", "done"}
       /\ \A p \in Workers :
             /\ (proc[p].pc = "commit" /\ proc'[p] # proc[p]) =>
                   /\ proc'[p].pc \in {"update", "done"}
                   /\ proc'[p].pc = "done" =>
                         /\ proc'[p].err # nil
                         /\ proc'[p].blockId = "" /\ proc'[p].transactionId = ""
                         /\ proc'[p].blockHash = ""
                   /\ proc'[p].pc = "update" =>
                         /\ proc'[p].blockId # "" /\ proc'[p].transactionId # ""
                         /\ proc'[p].blockHash # ""
             /\ proc[p].pc \in {"update", "done"} => proc'[p].pc # "commit"]_vars

\* a Commit has sent its transaction, failed to see it mined and returned the
\* error: the one transaction is on the chain and the handler has returned
C12_Witness ==
    \E p \in Workers : \E c \in ProviderNames :
        /\ proc[p].pc = "done" /\ proc[p].err = ErrMined
        /\ proc[p].blockId = "" /\ proc[p].transactionId = "" /\ proc[p].blockHash = ""
        /\ Len(ledger[c]) = 1 /\ ledger[c][1] = toParam(proc[p].record).param
        /\ \A o \in ProviderNames \ {c} : ledger[o] = <<>>

C14_AddBindsActiveProviders ==
    [][\A p \in Workers : \A record \in NewRecords :
          (AddRecord(p, record) /\ record.provider = "" /\ ~Skipped(record)) =>
             \/ /\ proc'[p].pc = "done" /\ proc'[p].err = ErrLookup /\ ~proc'[p].affected
                /\ store' = store /\ ledger' = ledger
             \/ /\ ledger' = ledger
                /\ \E r \in store' \ store :
                      /\ store' = store \cup {r}
                      /\ r.provider = active[1] /\ r.provider2 = active[2]
                      /\ r.owner = record.organization /\ r.name = record.name
                      /\ \A slot \in Slots :
                            /\ r[BlockField(slot)] = "" /\ r[BlockHashField(slot)] = ""
                            /\ r[TransactionField(slot)] = ""
                /\ ~record.needCommit =>
                      /\ proc'[p].pc = "done" /\ proc'[p].err = nil /\ proc'[p].affected
                      /\ proc'[p].data = NoData]_vars

\* a record added without a provider is stored with both active providers
\* bound and no commit: the chains are empty
C14_Witness ==
    \E p \in Workers : \E r \in store :
        /\ proc[p].pc = "done" /\ proc[p].op = "AddRecord" /\ proc[p].err = nil
        /\ proc[p].affected /\ ~proc[p].record.needCommit
        /\ r.id = proc[p].record.id
        /\ active = <<"p2", "p1">> /\ r.provider = "p2" /\ r.provider2 = "p1"
        /\ r.block = "" /\ r.block2 = ""
        /\ \A c \in ProviderNames : ledger[c] = <<>>

\* C15: with logPostOnly set, an AddRecord of a record whose method is GET
\* returns false, nil, nil, inserts nothing and commits nothing, needCommit set
\* or not.
C15_GetSkippedUnderPolicy ==
    [][\A p \in Workers : \A record \in NewRecords :
          (AddRecord(p, record) /\ logPostOnly /\ record.method = "GET") =>
             /\ proc'[p].pc = "done" /\ proc'[p].op = "AddRecord"
             /\ ~proc'[p].affected /\ proc'[p].data = NoData /\ proc'[p].err = nil
             /\ store' = store /\ nextId' = nextId /\ ledger' = ledger]_vars

\* the AddRecord of a GET request with needCommit has returned false, nil, nil
\* under the policy; nothing is stored and nothing is on a chain
C15_Witness ==
    \E p \in Workers :
        /\ logPostOnly
        /\ proc[p].pc = "done" /\ proc[p].op = "AddRecord"
        /\ proc[p].record.method = "GET" /\ proc[p].record.needCommit
        /\ ~HasSuffix(proc[p].record.action, "-record")
        /\ ~proc[p].affected /\ proc[p].data = NoData /\ proc[p].err = nil
        /\ store = {} /\ \A c \in ProviderNames : ledger[c] = <<>>

\* the actions that end with a suffix of the commit and query operations
Reserved(action) == HasSuffix(action, "-record") \/ HasSuffix(action, "-record-second")

\* C16: no stored record has an action that ends with "-record" or
\* "-record-second", and an AddRecord of a record with such an action has
\* returned false, nil, nil.
C16_NoSelfLogging ==
    /\ \A r \in store : ~Reserved(r.action)
    /\ \A p \in Workers :
          (proc[p].op = "AddRecord" /\ Reserved(proc[p].record.action)) =>
             /\ proc[p].pc = "done"
             /\ ~proc[p].affected /\ proc[p].data = NoData /\ proc[p].err = nil

\* the AddRecord of a captured query-record-second request has returned
\* false, nil, nil, while other records are stored
C16_Witness ==
    \E p \in Workers :
        /\ proc[p].pc = "done" /\ proc[p].op = "AddRecord"
        /\ proc[p].record.action = "query-record-second"
        /\ ~proc[p].affected /\ proc[p].data = NoData /\ proc[p].err = nil
        /\ store # {} /\ \A r \in store : r.action = "add-store"

\* C18: once the block of a slot of a stored record is non-empty, no step
\* changes the block, blockHash or transaction of that slot, but to clear the
\* three together while the provider of the slot changes.
C18_SlotFrozenOnceWritten ==
    [][\A r \in store : \A r2 \in store' : \A slot \in Slots :
          (r2.id = r.id /\ r[BlockField(slot)] # "") =>
             \/ /\ r2[BlockField(slot)] = r[BlockField(slot)]
                /\ r2[BlockHashField(slot)] = r[BlockHashField(slot)]
                /\ r2[TransactionField(slot)] = r[TransactionField(slot)]
             \/ /\ r2[BlockField(slot)] = "" /\ r2[BlockHashField(slot)] = ""
                /\ r2[TransactionField(slot)] = ""
                /\ r2[ProviderField(slot)] # r[ProviderField(slot)]]_vars

\* the errors the resolution of the provider named name may end with, besides
\* the failure of the lookup itself
ResolutionErrors(name) ==
    IF name = "" THEN (IF active[1] = "" THEN {ErrNoActiveProvider} ELSE {})
    ELSE IF name \in ProviderNames THEN {}
    ELSE {ErrProviderNotFound(name)}

C20_StoredProviderAnchoredSlot ==
    \A r \in store : \A slot \in Slots :
        r[BlockField(slot)] # "" =>
           /\ r[ProviderField(slot)] \in ProviderNames
           /\ \E n \in 1..Len(ledger[r[ProviderField(slot)]]) :
                 /\ r[TransactionField(slot)] = TxHash(r[ProviderField(slot)], n)
                 /\ r[BlockField(slot)] = BlockNumber(n)

\* block, blockHash and transaction of each slot of r are all empty or all non-empty
WholeSlots(r) ==
    \A slot \in Slots :
        \/ r[BlockField(slot)] = "" /\ r[BlockHashField(slot)] = "" /\ r[TransactionField(slot)] = ""
        \/ r[BlockField(slot)] # "" /\ r[BlockHashField(slot)] # "" /\ r[TransactionField(slot)] # ""

\* C21 as claimed: in every state, block, blockHash and transaction of each
\* slot of each stored record are all empty or all non-empty.
C21_NoPartialSlot == \A r \in store : WholeSlots(r)

\* C21, amended: a step from a state in which every slot of every stored
\* record is whole (block, blockHash and transaction all empty or all
\* non-empty) leads to such a state, unless it is an UpdateRecord whose caller
\* passes a record with a slot that is not whole.
C21_WholeSlotsPreserved ==
    [][((\A r \in store : WholeSlots(r))
        /\ \A r \in store : \A record \in Edits(r) :
              UpdateRecord(getId(r), record) => WholeSlots(record))
       => \A r \in store' : WholeSlots(r)]_vars

\* the primary slot of a committed record has been cleared as a whole by an
\* UpdateRecord that changed its provider: its transaction is on the chain of
\* the provider it had
C21_Witness ==
    \E r \in store : \E p \in Workers :
        /\ proc[p].pc = "done" /\ proc[p].err = nil /\ proc[p].affected
        /\ proc[p].slot = 1 /\ proc[p].blockId # "" /\ r.id = proc[p].record.id
        /\ edits = 1 /\ proc[p].record.provider = "p1" /\ r.provider = "p2"
        /\ r.block = "" /\ r.blockHash = "" /\ r.transaction = ""
        /\ Len(ledger["p1"]) = 1 /\ ledger["p1"][1] = toParam(r).param

\* C22: GetRecord(owner/name) returns a record of that owner and name or
\* nothing, and the update of a commit (UpdateRecordFields), an UpdateRecord
\* and a DeleteRecord leave every stored record of another owner/name id as
\* it is.
C22_ActsOnAddressedRecordOnly ==
    [][/\ \A id \in Ids : GetRecord(id) \subseteq RowsOf(id)
       /\ \A p \in Workers :
             (proc[p].pc = "update" /\ proc'[p].pc = "done") =>
                \A o \in store : getId(o) # getId(proc[p].record) => o \in store'
       /\ \A r \in store : \A record \in Edits(r) :
             UpdateRecord(getId(r), record) =>
                \A o \in store : getId(o) # getId(r) => o \in store'
       /\ \A r \in store :
             DeleteRecord(r) =>
                \A o \in store : getId(o) # getId(r) => o \in store']_vars

\* C23: an AddRecord with needCommit whose primary commit fails returns
\* false, nil and the error, and the record it inserted stays: when the
\* resolution of the provider fails, the step that inserts the record returns
\* the error with the record stored and its primary block, blockHash and
\* transaction empty; when client.Commit fails, the record has been inserted
\* before and the failing step leaves the table as it is.
C23_FailedCommitKeepsInsert ==
    [][\A p \in Workers :
          (proc'[p] # proc[p] /\ proc'[p].pc = "done" /\ proc'[p].op = "AddRecord"
             /\ proc'[p].slot = 1 /\ proc'[p].err # nil) =>
             /\ ~proc'[p].affected /\ proc'[p].data = NoData
             /\ proc'[p].record.needCommit
             /\ proc[p].pc = "idle" =>
                   \E r \in store' \ store :
                      /\ store' = store \cup {r}
                      /\ r.id = proc'[p].record.id /\ getId(r) = getId(proc'[p].record)
                      /\ r.block = "" /\ r.blockHash = "" /\ r.transaction = ""
             /\ proc[p].pc = "commit" =>
                   /\ store' = store
                   /\ proc'[p].err \in {ErrLedger, ErrMined}
             /\ proc[p].pc \in {"idle", "commit"}]_vars

\* the commit of an AddRecord has failed in the ledger and AddRecord has
\* returned false, nil and the error; the record is stored with an empty
\* primary slot, which the guard of a later CommitRecord lets through
C23_Witness ==
    \E p \in Workers : \E r \in store :
        /\ proc[p].pc = "done" /\ proc[p].op = "AddRecord" /\ proc[p].slot = 1
        /\ proc[p].err \in {ErrLedger, ErrMined}
        /\ ~proc[p].affected /\ proc[p].data = NoData
        /\ r.id = proc[p].record.id /\ r.needCommit
        /\ r.block = "" /\ r.blockHash = "" /\ r.transaction = ""
        /\ ~AlreadyCommitted(r, 1)

====
